---- MODULE Spec2Model ----
(***************************************************************************)
(* Model of web-simulator/src/mqtt.rs: MqttPublisher (the lifecycle        *)
(* orchestrator), MqttClient/Inner (the session manager) and the paho      *)
(* transport behind them.                                                  *)
(*                                                                         *)
(* Everything an outside party can see is appended, in order, to `log`:    *)
(*   t = "note"     a value emitted on opts.on_connection_state            *)
(*   t = "command"  a value emitted on opts.on_command                     *)
(*   t = "call"     a method called on the transport (js Client), publish  *)
(*                  excepted: publish calls are kept in `published`        *)
(*   t = "event"    a completion or event raised by the transport          *)
(*   t = "teardown" MqttPublisher::drop starts; v is what the transport's  *)
(*                  `connected` getter would answer at that moment         *)
(* The host event loop is single-threaded, so a handler runs to its end    *)
(* before the next event: each action is one whole handler.                *)
(***************************************************************************)
EXTENDS Naturals, Sequences, FiniteSets, TLC

VARIABLES
    pc,         \* "init" before MqttPublisher::new, "alive", "dropped"
    log,        \* the ordered history described above
    strong,     \* strong count of the Arc<Mutex<MqttClient>>
    inner,      \* Inner: which closures it retains, and whether it still exists
    connReq,    \* transport: the connect request, "none" | "pending" | "ok" | "err"
    subReq,     \* transport: the subscribe request, same values
    connected,  \* transport: the `connected` getter
    published,  \* transport: the publish calls received, in order
    \* -- the session manager seen by any caller of MqttClient
    made,       \* number of completion-closure pairs created so far (their ids are 1..made)
    held,       \* Inner: the id of the pair retained per request kind, 0 for None
    issued,     \* transport: the requests it was handed, [kind, id of the pair in the options]
    done,       \* transport: the ids of the requests it has completed
    fired,      \* the ids of the pairs of which a closure has run
    failedIds,  \* the ids of the pairs created by a call that ended in a setup error
    ret,        \* the last connect/subscribe call of the caller and how it ended
    \* -- history of delivered messages
    delivered,  \* per delivered message: the message, the decoders tried, what was emitted
    \* -- the Mutex around the shared MqttClient
    holders,    \* the contexts holding the MutexGuard
    lpc,        \* where the event-loop context is inside a handler, "idle" between handlers
    wpc,        \* where the context calling send is, and what publish has answered
    returned,   \* the results send has returned, in order
    ops,        \* the operations made on the shared client: [op, ctx, locked]
    \* -- the long-lived handlers seen by any caller of MqttClient
    tref,       \* transport: the closure it references per event kind, 0 for none
    kept,       \* Inner: the closure retained per event kind, 0 for None
    released,   \* the closures that have been dropped: [kind, id]
    invoked,    \* the closures the transport has invoked: [kind, id, kept, dropped]
    spc,        \* where the caller is inside a set_on_* call, and the closures created so far
    \* -- the QoS levels seen by the transport
    passed      \* per subscribe/publish call of MqttClient: [op, qos, level handed over]

\* The state of the orchestrator and the transport.
vars == <<pc, log, strong, inner, connReq, subReq, connected, published>>

\* The finer views, each used by the specification that needs it.
clientVars == <<made, held, issued, done, fired, failedIds, ret>>

msgVars == <<delivered>>

lockVars == <<holders, lpc, wpc, returned, ops>>

handlerVars == <<tref, kept, released, invoked, spc>>

qosVars == <<passed>>

aux == <<clientVars, msgVars, lockVars, handlerVars, qosVars>>

allVars == <<vars, aux>>

\* ------------------------------------------------------------------ bounds
MaxLost == 1    \* connection_lost events in one run
MaxMsgs == 1    \* delivered messages in one run
MaxSend == 1    \* send() calls in one run
MaxDeliver == 2 \* messages delivered in one run of the message handler alone
MaxSets == 3    \* set_on_message_arrived / set_on_connection_lost calls in one run
MaxQosCalls == 3 \* subscribe/publish calls with a caller-chosen QoS in one run

\* ------------------------------------------------------------ log entries
NoErr == [kind |-> "none", text |-> ""]

Note(s) == [t |-> "note", v |-> s, e |-> NoErr]
Command(c) == [t |-> "command", v |-> c, e |-> NoErr]
Call(m) == [t |-> "call", v |-> m, e |-> NoErr]
Event(n, err) == [t |-> "event", v |-> n, e |-> err]
Teardown(c) == [t |-> "teardown", v |-> IF c THEN "connected" ELSE "not connected", e |-> NoErr]

\* ---------------------------------------------------- transport's values
\* A native error (JsValue) handed to a failure callback: a plain string, a
\* value serde can read as JSON (text is its rendering), or neither.
NativeErrors ==
    { [kind |-> "string", text |-> "bad credentials"],
      [kind |-> "json", text |-> "{\"errorCode\":7}"],
      [kind |-> "opaque", text |-> ""] }

\* Topics as their '/'-separated segments: "command/inbox//abc",
\* "command/inbox/abc", "telemetry/data".
Topics ==
    { <<"command", "inbox", "", "abc">>,
      <<"command", "inbox", "abc">>,
      <<"telemetry", "data">> }

\* Payloads by what the decoders make of them: cmd is the Command the strict
\* schema reads, lcmd the one the loose mapping reads.
Payloads ==
    { [strict |-> TRUE, json |-> TRUE, loose |-> TRUE, cmd |-> "ping", lcmd |-> "ping-loose"],
      [strict |-> FALSE, json |-> TRUE, loose |-> TRUE, cmd |-> "", lcmd |-> "legacy"],
      [strict |-> FALSE, json |-> TRUE, loose |-> FALSE, cmd |-> "", lcmd |-> ""],
      [strict |-> FALSE, json |-> FALSE, loose |-> FALSE, cmd |-> "", lcmd |-> ""] }

\* What the transport hands to onMessageArrived: a Message, or something else.
NativeMessages ==
    { [isMessage |-> TRUE, topic |-> tp, payload |-> p] : tp \in Topics, p \in Payloads }
    \cup { [isMessage |-> FALSE, topic |-> <<>>, payload |-> CHOOSE p \in Payloads : ~p.json] }

\* ------------------------------------------------------- pure conversions
convert_error(value) ==
    IF value.kind = "string" THEN value.text
    ELSE IF value.kind = "json" THEN value.text
    ELSE "<unknown>"

convert_message(value) ==
    IF value.isMessage
    THEN [ok |-> TRUE, topic |-> value.topic, payload |-> value.payload]
    ELSE [ok |-> FALSE, topic |-> <<>>, payload |-> value.payload]

\* Variant of strip_prefix: one separator after "inbox" is enough.
strip_prefix_single(topic) ==
    /\ Len(topic) >= 3
    /\ topic[1] = "command"
    /\ topic[2] = "inbox"

\* msg.topic.strip_prefix("command/inbox//"): the topic starts with the
\* segments "command", "inbox", "" and a '/' follows the empty one.
strip_prefix(topic) ==
    /\ Len(topic) >= 4
    /\ topic[1] = "command"
    /\ topic[2] = "inbox"
    /\ topic[3] = ""

\* serde_json::from_slice::<RawMessage>
strict_decode(payload) == [ok |-> payload.strict, cmd |-> payload.cmd]

\* serde_json::from_slice::<Value>
generic_parse(payload) == payload.json

\* json2command: Some((metadata, command)) or None
json2command(payload) ==
    [some |-> payload.loose, meta |-> "meta", cmd |-> payload.lcmd]

\* Variant of decode_trace: the loose mapping is tried before the strict schema.
decode_trace_loose_first(msg) ==
    IF ~strip_prefix(msg.topic) THEN [attempts |-> <<>>, out |-> <<>>]
    ELSE IF generic_parse(msg.payload) /\ json2command(msg.payload).some
    THEN [attempts |-> <<"generic", "loose">>,
          out |-> <<json2command(msg.payload).cmd>>]
    ELSE IF strict_decode(msg.payload).ok
    THEN [attempts |-> <<"generic", "loose", "strict">>,
          out |-> <<strict_decode(msg.payload).cmd>>]
    ELSE [attempts |-> <<"generic", "loose", "strict">>, out |-> <<>>]

\* The closure given to filter_reform in MqttPublisher::new: the decoders it
\* invokes, in order, and the Option<Command> it returns.
decode_trace(msg) ==
    IF strip_prefix(msg.topic)
    THEN IF strict_decode(msg.payload).ok
         THEN [attempts |-> <<"strict">>,
               out |-> <<strict_decode(msg.payload).cmd>>]
         ELSE IF generic_parse(msg.payload)
              THEN IF json2command(msg.payload).some
                   THEN [attempts |-> <<"strict", "generic", "loose">>,
                         out |-> <<json2command(msg.payload).cmd>>]
                   ELSE [attempts |-> <<"strict", "generic", "loose">>,
                         out |-> <<>>]
              ELSE [attempts |-> <<"strict", "generic">>, out |-> <<>>]
    ELSE [attempts |-> <<>>, out |-> <<>>]

\* What the closure returns.
decode(msg) == decode_trace(msg).out

\* filter_reform: emit on on_command only when the closure yields Some.
filter_reform(msg) == IF decode(msg) = <<>> THEN <<>> ELSE <<Command(decode(msg)[1])>>

\* ------------------------------------------------------------ log queries
Count(t, v) == Cardinality({ i \in DOMAIN log : log[i].t = t /\ log[i].v = v })

Positions(t, v) == { i \in DOMAIN log : log[i].t = t /\ log[i].v = v }

IsNote(entry) == entry.t = "note"

\* The values seen by the on_connection_state observer, in order.
Notes == [ i \in DOMAIN SelectSeq(log, IsNote) |-> SelectSeq(log, IsNote)[i].v ]

\* ------------------------------------------------ handlers of the orchestrator
\* MqttPublisher::new up to the return of client.lock().unwrap().connect(..):
\* the Connecting note, the two long-lived handlers, the arguments of connect
\* (evaluated before the call, the block of the on_success argument included),
\* then Inner::connect, which reaches client.connect only when both handlers
\* could be attached to the options object.
\* Variant of new_log: subscribe issued at once, without waiting for connect.
new_log_eager(attach) ==
    <<Note("Connecting"), Call("set_on_connection_lost"), Call("set_on_message_arrived"),
      Note("Subscribing")>>
    \o (IF attach = "ok" THEN <<Call("connect"), Call("subscribe")>> ELSE <<>>)

\* Variant of new_log: the long-lived handlers are installed after connect.
new_log_handlers_late(attach) ==
    <<Note("Connecting"), Note("Subscribing")>>
    \o (IF attach = "ok" THEN <<Call("connect")>> ELSE <<>>)
    \o <<Call("set_on_connection_lost"), Call("set_on_message_arrived")>>

\* MqttPublisher::new, as the code has it.
new_log(attach) ==
    <<Note("Connecting"), Call("set_on_connection_lost"), Call("set_on_message_arrived"),
      Note("Subscribing")>>
    \o (IF attach = "ok" THEN <<Call("connect")>> ELSE <<>>)

\* The on_success callback of connect: lock the client and subscribe; the
\* result of subscribe is discarded.
connect_on_success(attach) ==
    IF attach = "ok" THEN <<Call("subscribe")>> ELSE <<>>

\* Variant of connect_on_failure: the orchestrator retries the connect.
connect_on_failure_retry(err) ==
    <<Note("Failed to connect: " \o convert_error(err)), Note("Connecting"), Call("connect")>>

\* The on_failure callback of connect, behind Inner::connect's closure.
connect_on_failure(err) ==
    <<Note("Failed to connect: " \o convert_error(err))>>

\* Variant of subscribe_on_success: Running notified twice.
subscribe_on_success_twice == <<Note("Running"), Note("Running")>>

\* The on_success callback of subscribe.
subscribe_on_success == <<Note("Running")>>

\* Variant of subscribe_on_failure: falls through to Running.
subscribe_on_failure_running(err) ==
    <<Note("Failed to subscribe: " \o convert_error(err)), Note("Running")>>

\* Variant of subscribe_on_failure: the native error used without convert_error.
subscribe_on_failure_raw(err) ==
    <<Note("Failed to subscribe: " \o err.text)>>

\* The on_failure callback of subscribe, behind Inner::subscribe's closure.
subscribe_on_failure(err) ==
    <<Note("Failed to subscribe: " \o convert_error(err))>>

\* Variant of on_connection_lost: the handler is silent once the publisher is dropped.
on_connection_lost_silent_when_stopped(err) ==
    IF pc = "dropped" THEN <<>> ELSE <<Note("Disconnected: " \o convert_error(err))>>

\* The connection-lost callback, behind Inner::set_on_connection_lost's closure.
on_connection_lost(err) ==
    <<Note("Disconnected: " \o convert_error(err))>>

\* Variant of on_message_arrived: a payload that cannot be decoded is reported
\* to the connection-state observer.
on_message_arrived_noisy(value) ==
    IF convert_message(value).ok
    THEN IF strip_prefix(convert_message(value).topic)
            /\ decode(convert_message(value)) = <<>>
         THEN <<Note("Failed to parse command")>>
         ELSE filter_reform(convert_message(value))
    ELSE <<>>

\* The message-arrived closure of Inner::set_on_message_arrived around the
\* filter_reform callback.
on_message_arrived(value) ==
    IF convert_message(value).ok THEN filter_reform(convert_message(value)) ELSE <<>>

\* enum QoS.
QoSValues == {"QoS0", "QoS1", "QoS2"}

\* Variant of qos_to_i32: the levels counted from one.
qos_to_i32_from_one(qos) ==
    IF qos = "QoS0" THEN 1 ELSE IF qos = "QoS1" THEN 2 ELSE 3

\* From<QoS> for i32.
qos_to_i32(qos) ==
    IF qos = "QoS0" THEN 0 ELSE IF qos = "QoS1" THEN 1 ELSE 2

\* What send hands to Client::publish: the publisher's topic and qos, not retained.
\* Variant of publish_call: the message is published retained.
publish_call_retained ==
    [topic |-> "sensor", qos |-> qos_to_i32("QoS1"), retained |-> TRUE]

publish_call == [topic |-> "sensor", qos |-> qos_to_i32("QoS1"), retained |-> FALSE]

\* Client::disconnect and the `connected` getter after it.
connected_after_disconnect(c) == FALSE

\* Drop for Inner: disconnect if the transport still says connected.
Inner_drop(c) == IF c THEN <<Call("disconnect")>> ELSE <<>>

\* Drop for MqttPublisher, then the drop of its fields: the Arc loses one
\* strong reference and the MqttClient is dropped when none is left.
MqttPublisher_drop(c, count) ==
    <<Call("disconnect"), Note("Stopped")>>
    \o (IF count = 1 THEN Inner_drop(connected_after_disconnect(c)) ELSE <<>>)

\* The context calling send is outside send.
WorkerIdle == [at |-> "idle", res |-> NoErr]

\* The caller is outside set_on_message_arrived / set_on_connection_lost.
SetterIdle == [kind |-> "none", id |-> 0, todo |-> <<>>, created |-> 0]

\* No connect/subscribe call made yet on the MqttClient.
NoCall == [call |-> "none", setup |-> "none", result |-> "none", id |-> 0,
           heldBefore |-> [connect |-> 0, subscribe |-> 0], issuedBefore |-> {}]

NoInner ==
    [exists |-> FALSE,
     on_connection_lost |-> FALSE, on_message_arrived |-> FALSE,
     on_connect_success |-> FALSE, on_connect_failure |-> FALSE,
     on_subscribe_success |-> FALSE, on_subscribe_failure |-> FALSE]

\* ------------------------------------------------------------------ actions
Init ==
    /\ pc = "init"
    /\ log = <<>>
    /\ strong = 0
    /\ inner = NoInner
    /\ connReq = "none"
    /\ subReq = "none"
    /\ connected = FALSE
    /\ published = <<>>
    /\ made = 0
    /\ held = [connect |-> 0, subscribe |-> 0]
    /\ issued = {}
    /\ done = {}
    /\ fired = {}
    /\ failedIds = {}
    /\ ret = NoCall
    /\ delivered = <<>>
    /\ holders = {}
    /\ lpc = "idle"
    /\ wpc = WorkerIdle
    /\ returned = <<>>
    /\ ops = {}
    /\ tref = [message |-> 0, lost |-> 0]
    /\ kept = [message |-> 0, lost |-> 0]
    /\ released = {}
    /\ invoked = {}
    /\ spc = SetterIdle
    /\ passed = <<>>

\* MqttPublisher::new. attach: whether Reflect::set could attach the handlers.
New(attach) ==
    /\ pc = "init"
    /\ pc' = "alive"
    /\ log' = log \o new_log(attach)
    /\ inner' = [exists |-> TRUE,
                 on_connection_lost |-> TRUE, on_message_arrived |-> TRUE,
                 on_connect_success |-> (attach = "ok"),
                 on_connect_failure |-> (attach = "ok"),
                 on_subscribe_success |-> FALSE, on_subscribe_failure |-> FALSE]
    \* `c`, the second Arc, lives in the retained on_success closure
    /\ strong' = IF attach = "ok" THEN 2 ELSE 1
    /\ connReq' = IF attach = "ok" THEN "pending" ELSE "none"
    /\ UNCHANGED <<subReq, connected, published>>
    /\ UNCHANGED aux

\* The transport completes connect with success and calls onSuccess.
\* attach: whether Inner::subscribe could build its options and attach handlers.
ConnectSuccess(attach) ==
    /\ connReq = "pending"
    /\ connReq' = "ok"
    /\ connected' = TRUE
    /\ IF inner.exists /\ inner.on_connect_success
       THEN /\ log' = log \o <<Event("connect_ok", NoErr)>> \o connect_on_success(attach)
            /\ inner' = IF attach = "ok"
                        THEN [inner EXCEPT !.on_subscribe_success = TRUE,
                                           !.on_subscribe_failure = TRUE]
                        ELSE inner
            /\ subReq' = IF attach = "ok" THEN "pending" ELSE subReq
       ELSE /\ log' = log \o <<Event("connect_ok", NoErr)>>
            /\ UNCHANGED <<inner, subReq>>
    /\ UNCHANGED <<pc, strong, published>>
    /\ UNCHANGED aux

\* The transport completes connect with failure and calls onFailure(err).
ConnectFailure(err) ==
    /\ connReq = "pending"
    /\ connReq' = "err"
    /\ log' = log \o <<Event("connect_err", err)>>
              \o (IF inner.exists /\ inner.on_connect_failure
                  THEN connect_on_failure(err) ELSE <<>>)
    /\ UNCHANGED <<pc, strong, inner, subReq, connected, published>>
    /\ UNCHANGED aux

\* The transport completes subscribe with success and calls onSuccess.
SubscribeSuccess ==
    /\ subReq = "pending"
    /\ subReq' = "ok"
    /\ log' = log \o <<Event("subscribe_ok", NoErr)>>
              \o (IF inner.exists /\ inner.on_subscribe_success
                  THEN subscribe_on_success ELSE <<>>)
    /\ UNCHANGED <<pc, strong, inner, connReq, connected, published>>
    /\ UNCHANGED aux

\* The transport completes subscribe with failure and calls onFailure(err).
SubscribeFailure(err) ==
    /\ subReq = "pending"
    /\ subReq' = "err"
    /\ log' = log \o <<Event("subscribe_err", err)>>
              \o (IF inner.exists /\ inner.on_subscribe_failure
                  THEN subscribe_on_failure(err) ELSE <<>>)
    /\ UNCHANGED <<pc, strong, inner, connReq, connected, published>>
    /\ UNCHANGED aux

\* The transport reports connection_lost(err), at any time after a
\* successful connect.
ConnectionLost(err) ==
    /\ connReq = "ok"
    /\ Count("event", "connection_lost") < MaxLost
    /\ connected' = FALSE
    /\ log' = log \o <<Event("connection_lost", err)>>
              \o (IF inner.exists /\ inner.on_connection_lost
                  THEN on_connection_lost(err) ELSE <<>>)
    /\ UNCHANGED <<pc, strong, inner, connReq, subReq, published>>
    /\ UNCHANGED aux

\* The transport delivers a message, at any time after a successful connect.
MessageArrived(value) ==
    /\ connReq = "ok"
    /\ Count("event", "message") < MaxMsgs
    /\ log' = log \o <<Event("message", NoErr)>>
              \o (IF inner.exists /\ inner.on_message_arrived
                  THEN on_message_arrived(value) ELSE <<>>)
    /\ UNCHANGED <<pc, strong, inner, connReq, subReq, connected, published>>
    /\ UNCHANGED aux

\* Publisher::send: lock the client and publish on "sensor".
Send ==
    /\ pc = "alive"
    /\ Len(published) < MaxSend
    /\ published' = Append(published, publish_call)
    /\ UNCHANGED <<pc, log, strong, inner, connReq, subReq, connected>>
    /\ UNCHANGED aux

\* The owner drops the MqttPublisher.
Drop ==
    /\ pc = "alive"
    /\ pc' = "dropped"
    /\ log' = log \o <<Teardown(connected)>> \o MqttPublisher_drop(connected, strong)
    /\ connected' = connected_after_disconnect(connected)
    /\ strong' = strong - 1
    /\ inner' = IF strong = 1 THEN NoInner ELSE inner
    /\ UNCHANGED <<connReq, subReq, published>>
    /\ UNCHANGED aux

Next ==
    \/ \E attach \in {"ok", "err"} : New(attach)
    \/ \E attach \in {"ok", "err"} : ConnectSuccess(attach)
    \/ \E err \in NativeErrors : ConnectFailure(err)
    \/ SubscribeSuccess
    \/ \E err \in NativeErrors : SubscribeFailure(err)
    \/ \E err \in NativeErrors : ConnectionLost(err)
    \/ \E value \in NativeMessages : MessageArrived(value)
    \/ Send
    \/ Drop

Spec == Init /\ [][Next]_allVars

\* The transport completes a request it has accepted: one of its completion
\* callbacks is called.
TransportCompletes ==
    \/ \E attach \in {"ok", "err"} : ConnectSuccess(attach)
    \/ \E err \in NativeErrors : ConnectFailure(err)
    \/ SubscribeSuccess
    \/ \E err \in NativeErrors : SubscribeFailure(err)

\* The lifecycle with a transport that completes every request it accepts.
SpecLive == Spec /\ WF_allVars(TransportCompletes)

\* ------------------------------------------ the lifecycle with reconnection
\* The connect options ask for reconnect: after a connection_lost the
\* transport may reconnect by itself, and it then calls the onSuccess handler
\* of the connect options again. The handler subscribes again; the transport
\* tracks the subscribe request issued last.
\* attach: whether Inner::subscribe could build its options and attach handlers.
Reconnect(attach) ==
    /\ pc = "alive"
    /\ connReq = "ok"
    /\ ~connected
    /\ connected' = TRUE
    /\ IF inner.exists /\ inner.on_connect_success
       THEN /\ log' = log \o <<Event("connect_ok", NoErr)>> \o connect_on_success(attach)
            /\ inner' = IF attach = "ok"
                        THEN [inner EXCEPT !.on_subscribe_success = TRUE,
                                           !.on_subscribe_failure = TRUE]
                        ELSE inner
            /\ subReq' = IF attach = "ok" THEN "pending" ELSE subReq
       ELSE /\ log' = log \o <<Event("connect_ok", NoErr)>>
            /\ UNCHANGED <<inner, subReq>>
    /\ UNCHANGED <<pc, strong, connReq, published>>
    /\ UNCHANGED aux

NextReconnect ==
    \/ \E attach \in {"ok", "err"} : New(attach)
    \/ \E attach \in {"ok", "err"} : ConnectSuccess(attach)
    \/ \E err \in NativeErrors : ConnectFailure(err)
    \/ SubscribeSuccess
    \/ \E err \in NativeErrors : SubscribeFailure(err)
    \/ \E err \in NativeErrors : ConnectionLost(err)
    \/ \E attach \in {"ok", "err"} : Reconnect(attach)
    \/ Drop

SpecReconnect == Init /\ [][NextReconnect]_allVars

\* ------------------------------------------- the message handler in detail
\* The same delivery as MessageArrived, with a record of every delivery: the
\* native value, the decoders the handler invoked, what it emitted, and the
\* session's state before and after.

Session == <<pc, connReq, subReq, connected, Len(published), Len(Notes)>>

Deliver(value) ==
    /\ connReq = "ok"
    /\ inner.exists /\ inner.on_message_arrived
    /\ Len(delivered) < MaxDeliver
    /\ log' = log \o <<Event("message", NoErr)>> \o on_message_arrived(value)
    /\ UNCHANGED <<pc, strong, inner, connReq, subReq, connected, published>>
    /\ delivered' = Append(delivered,
           [msg |-> value,
            attempts |-> IF convert_message(value).ok
                         THEN decode_trace(convert_message(value)).attempts
                         ELSE <<>>,
            emitted |-> SubSeq(log', Len(log) + 2, Len(log')),
            before |-> Session,
            after |-> Session'])
    /\ UNCHANGED <<clientVars, handlerVars, qosVars, lockVars>>

NextMsg ==
    \/ \E attach \in {"ok", "err"} : New(attach)
    \/ \E attach \in {"ok", "err"} : ConnectSuccess(attach)
    \/ SubscribeSuccess
    \/ \E value \in NativeMessages : Deliver(value)
    \/ Drop

SpecMsg == Init /\ [][NextMsg]_allVars

\* ------------------------------------------------- the lock, step by step
\* The same handlers with every use of the Mutex around the MqttClient made
\* a step of its own: lock() requested, MutexGuard obtained, the operation,
\* MutexGuard dropped at the end of the statement. "loop" is the context of
\* the event loop (new, the transport's callbacks, drop), "worker" the context
\* calling send.

\* Mutex::lock returns once nobody holds the guard.
can_lock(h) == h = {}

lock_acquire(ctx) == holders \cup {ctx}

\* Variant of lock_release: the guard outlives the statement.
lock_release_leak(ctx) == holders

\* The temporary MutexGuard is dropped when its statement ends.
lock_release(ctx) == holders \ {ctx}

\* An operation on the shared client, with whether its context holds the guard.
Op(name, ctx) == [op |-> name, ctx |-> ctx, locked |-> ctx \in holders]

\* What publish can answer: Ok, or a native error.
PublishResults == {NoErr} \cup NativeErrors

str_err(err) ==
    IF err.kind = "string" THEN err.text
    ELSE IF err.kind = "json" THEN "Unknown error: " \o err.text
    ELSE "Unknown error"

\* Inner::publish maps the error with str_err; send hands the result on.
send_result(res) ==
    [e |-> res, v |-> IF res = NoErr THEN "Ok" ELSE str_err(res)]

\* MqttPublisher::new before client.lock(): the part of new_log that does
\* not depend on connect.
new_before_lock == SubSeq(new_log("ok"), 1, 3)

\* MqttPublisher::new under the guard: the arguments of connect, then connect.
new_under_lock(attach) == SubSeq(new_log(attach), 4, Len(new_log(attach)))

\* The host event loop starts a handler only when no other code of its
\* context is running.
LoopIdle == lpc = "idle"

NewStart ==
    /\ pc = "init"
    /\ lpc = "idle"
    /\ lpc' = "new_wait"
    /\ log' = log \o new_before_lock
    /\ inner' = [NoInner EXCEPT !.exists = TRUE, !.on_connection_lost = TRUE,
                                !.on_message_arrived = TRUE]
    /\ strong' = 2
    /\ UNCHANGED <<pc, connReq, subReq, connected, published>>
    /\ UNCHANGED <<clientVars, msgVars, qosVars, handlerVars, holders, wpc, returned, ops>>

\* The event-loop context obtains the guard it waits for.
LoopAcquire ==
    /\ lpc \in {"new_wait", "cs_wait", "drop_wait"}
    /\ can_lock(holders)
    /\ holders' = lock_acquire("loop")
    /\ lpc' = IF lpc = "new_wait" THEN "new_locked"
              ELSE IF lpc = "cs_wait" THEN "cs_locked" ELSE "drop_locked"
    /\ UNCHANGED <<vars, clientVars, msgVars, qosVars, handlerVars, wpc, returned, ops>>

NewConnect(attach) ==
    /\ lpc = "new_locked"
    /\ lpc' = "new_called"
    /\ log' = log \o new_under_lock(attach)
    /\ inner' = [inner EXCEPT !.on_connect_success = (attach = "ok"),
                              !.on_connect_failure = (attach = "ok")]
    /\ strong' = IF attach = "ok" THEN 2 ELSE 1
    /\ connReq' = IF attach = "ok" THEN "pending" ELSE "none"
    /\ ops' = ops \cup {Op("connect", "loop")}
    /\ UNCHANGED <<pc, subReq, connected, published>>
    /\ UNCHANGED <<clientVars, msgVars, qosVars, handlerVars, holders, wpc, returned>>

NewReturn ==
    /\ lpc = "new_called"
    /\ lpc' = "idle"
    /\ holders' = lock_release("loop")
    /\ pc' = "alive"
    /\ UNCHANGED <<log, strong, inner, connReq, subReq, connected, published>>
    /\ UNCHANGED <<clientVars, msgVars, qosVars, handlerVars, wpc, returned, ops>>

\* The transport completes connect with success; the handler asks for the lock.
CsStart ==
    /\ LoopIdle
    /\ connReq = "pending"
    /\ connReq' = "ok"
    /\ connected' = TRUE
    /\ log' = log \o <<Event("connect_ok", NoErr)>>
    /\ lpc' = IF inner.exists /\ inner.on_connect_success THEN "cs_wait" ELSE "idle"
    /\ UNCHANGED <<pc, strong, inner, subReq, published>>
    /\ UNCHANGED <<clientVars, msgVars, qosVars, handlerVars, holders, wpc, returned, ops>>

\* The transport has reconnected by itself after a connection_lost and
\* calls the onSuccess handler of the connect options again.
CsRestart ==
    /\ LoopIdle
    /\ pc = "alive"
    /\ connReq = "ok"
    /\ ~connected
    /\ connected' = TRUE
    /\ log' = log \o <<Event("connect_ok", NoErr)>>
    /\ lpc' = IF inner.exists /\ inner.on_connect_success THEN "cs_wait" ELSE "idle"
    /\ UNCHANGED <<pc, strong, inner, connReq, subReq, published>>
    /\ UNCHANGED <<clientVars, msgVars, qosVars, handlerVars, holders, wpc, returned, ops>>

CsSubscribe(attach) ==
    /\ lpc = "cs_locked"
    /\ lpc' = "cs_called"
    /\ log' = log \o connect_on_success(attach)
    /\ inner' = IF attach = "ok"
                THEN [inner EXCEPT !.on_subscribe_success = TRUE,
                                   !.on_subscribe_failure = TRUE]
                ELSE inner
    /\ subReq' = IF attach = "ok" THEN "pending" ELSE subReq
    /\ ops' = ops \cup {Op("subscribe", "loop")}
    /\ UNCHANGED <<pc, strong, connReq, connected, published>>
    /\ UNCHANGED <<clientVars, msgVars, qosVars, handlerVars, holders, wpc, returned>>

CsReturn ==
    /\ lpc = "cs_called"
    /\ lpc' = "idle"
    /\ holders' = lock_release("loop")
    /\ UNCHANGED <<vars, clientVars, msgVars, qosVars, handlerVars, wpc, returned, ops>>

\* send: lock() requested. The publisher exists and is not being dropped.
SendStart ==
    /\ pc = "alive"
    /\ lpc \notin {"drop_wait", "drop_locked", "drop_called"}
    /\ wpc.at = "idle"
    /\ Len(returned) < MaxSend
    /\ wpc' = [wpc EXCEPT !.at = "send_wait"]
    /\ UNCHANGED <<vars, clientVars, msgVars, qosVars, handlerVars, holders, lpc, returned, ops>>

SendAcquire ==
    /\ wpc.at = "send_wait"
    /\ can_lock(holders)
    /\ holders' = lock_acquire("worker")
    /\ wpc' = [wpc EXCEPT !.at = "send_locked"]
    /\ UNCHANGED <<vars, clientVars, msgVars, qosVars, handlerVars, lpc, returned, ops>>

\* publish on the transport, which answers res.
SendPublish(res) ==
    /\ wpc.at = "send_locked"
    /\ wpc' = [at |-> "send_called", res |-> res]
    /\ published' = Append(published, publish_call)
    /\ ops' = ops \cup {Op("publish", "worker")}
    /\ UNCHANGED <<pc, log, strong, inner, connReq, subReq, connected>>
    /\ UNCHANGED <<clientVars, msgVars, qosVars, handlerVars, holders, lpc, returned>>

\* send returns, Ok or through `?`: the guard is dropped either way.
SendReturn ==
    /\ wpc.at = "send_called"
    /\ wpc' = WorkerIdle
    /\ holders' = lock_release("worker")
    /\ returned' = Append(returned, send_result(wpc.res))
    /\ UNCHANGED <<vars, clientVars, msgVars, qosVars, handlerVars, lpc, ops>>

\* The owner drops the MqttPublisher: lock() requested. No send is running.
DropStart ==
    /\ pc = "alive"
    /\ lpc = "idle"
    /\ wpc.at = "idle"
    /\ lpc' = "drop_wait"
    /\ log' = log \o <<Teardown(connected)>>
    /\ UNCHANGED <<pc, strong, inner, connReq, subReq, connected, published>>
    /\ UNCHANGED <<clientVars, msgVars, qosVars, handlerVars, holders, wpc, returned, ops>>

DropDisconnect ==
    /\ lpc = "drop_locked"
    /\ lpc' = "drop_called"
    /\ log' = log \o SubSeq(MqttPublisher_drop(connected, strong), 1, 1)
    /\ connected' = connected_after_disconnect(connected)
    /\ ops' = ops \cup {Op("disconnect", "loop")}
    /\ UNCHANGED <<pc, strong, inner, connReq, subReq, published>>
    /\ UNCHANGED <<clientVars, msgVars, qosVars, handlerVars, holders, wpc, returned>>

\* The guard is dropped, Stopped is emitted, the fields are dropped.
DropReturn ==
    /\ lpc = "drop_called"
    /\ lpc' = "idle"
    /\ holders' = lock_release("loop")
    /\ pc' = "dropped"
    /\ log' = log \o SubSeq(MqttPublisher_drop(connected, strong), 2,
                            Len(MqttPublisher_drop(connected, strong)))
    /\ strong' = strong - 1
    /\ inner' = IF strong = 1 THEN NoInner ELSE inner
    /\ UNCHANGED <<connReq, subReq, connected, published>>
    /\ UNCHANGED <<clientVars, msgVars, qosVars, handlerVars, wpc, returned, ops>>

NextLock ==
    \/ NewStart
    \/ LoopAcquire
    \/ \E attach \in {"ok", "err"} : NewConnect(attach)
    \/ NewReturn
    \/ CsStart
    \/ CsRestart
    \/ \E attach \in {"ok", "err"} : CsSubscribe(attach)
    \/ CsReturn
    \/ \E err \in NativeErrors : LoopIdle /\ ConnectFailure(err)
    \/ LoopIdle /\ SubscribeSuccess
    \/ \E err \in NativeErrors : LoopIdle /\ SubscribeFailure(err)
    \/ \E err \in NativeErrors : LoopIdle /\ ConnectionLost(err)
    \/ SendStart
    \/ SendAcquire
    \/ \E res \in PublishResults : SendPublish(res)
    \/ SendReturn
    \/ DropStart
    \/ DropDisconnect
    \/ DropReturn

SpecLock == Init /\ [][NextLock]_allVars

\* ------------------------------------------------ the long-lived handlers
\* Inner::set_on_message_arrived and Inner::set_on_connection_lost, for any
\* caller of MqttClient: each call wraps the callback in a new closure, hands
\* a reference to the transport, then stores the closure in its field, which
\* drops the closure stored before.

HandlerKinds == {"message", "lost"}

\* Variant of set_handler_steps: the field is assigned before the transport
\* is handed the new closure.
set_handler_steps_retain_first == <<"retain", "switch">>

\* The statements of a setter after Closure::wrap, in order:
\* self.client.set_on_*(closure.as_ref()); self._on_* = Some(closure).
set_handler_steps == <<"switch", "retain">>

\* Closure::wrap: the caller is inside the setter with a new closure.
SetStart(kind) ==
    /\ spc.kind = "none"
    /\ spc.created < MaxSets
    /\ spc' = [kind |-> kind, id |-> spc.created + 1,
               todo |-> set_handler_steps, created |-> spc.created + 1]
    /\ UNCHANGED <<tref, kept, released, invoked>>
    /\ UNCHANGED <<vars, clientVars, msgVars, qosVars, lockVars>>

\* The next statement of the setter; after the last one the setter returns.
SetStep ==
    /\ spc.kind # "none"
    /\ IF Head(spc.todo) = "switch"
       THEN /\ tref' = [tref EXCEPT ![spc.kind] = spc.id]
            /\ UNCHANGED <<kept, released>>
       ELSE /\ kept' = [kept EXCEPT ![spc.kind] = spc.id]
            /\ released' = IF kept[spc.kind] = 0 THEN released
                           ELSE released \cup {[kind |-> spc.kind, id |-> kept[spc.kind]]}
            /\ UNCHANGED tref
    /\ spc' = IF Tail(spc.todo) = <<>>
              THEN [SetterIdle EXCEPT !.created = spc.created]
              ELSE [spc EXCEPT !.todo = Tail(spc.todo)]
    /\ UNCHANGED invoked
    /\ UNCHANGED <<vars, clientVars, msgVars, qosVars, lockVars>>

\* The transport raises an event of this kind and invokes the closure it
\* references. The event loop does not run while a setter is executing.
HandlerEvent(kind) ==
    /\ spc.kind = "none"
    /\ tref[kind] # 0
    /\ invoked' = invoked \cup
           {[kind |-> kind, id |-> tref[kind], kept |-> kept[kind],
             dropped |-> [kind |-> kind, id |-> tref[kind]] \in released]}
    /\ UNCHANGED <<tref, kept, released, spc>>
    /\ UNCHANGED <<vars, clientVars, msgVars, qosVars, lockVars>>

NextHandlers ==
    \/ \E kind \in HandlerKinds : SetStart(kind)
    \/ SetStep
    \/ \E kind \in HandlerKinds : HandlerEvent(kind)

SpecHandlers == Init /\ [][NextHandlers]_allVars

\* ------------------------------------------------------------ QoS levels
\* MqttClient::subscribe and MqttClient::publish called with any QoS: what
\* reaches the transport as the level is qos.into().

\* Inner::subscribe: SubscribeOptions { qos: qos.into(), .. }.
QosSubscribe(qos) ==
    /\ Len(passed) < MaxQosCalls
    /\ passed' = Append(passed, [op |-> "subscribe", qos |-> qos, level |-> qos_to_i32(qos)])
    /\ UNCHANGED <<vars, clientVars, msgVars, lockVars, handlerVars>>

\* Inner::publish: self.client.publish(topic, payload, qos.into(), retain).
QosPublish(qos) ==
    /\ Len(passed) < MaxQosCalls
    /\ passed' = Append(passed, [op |-> "publish", qos |-> qos, level |-> qos_to_i32(qos)])
    /\ UNCHANGED <<vars, clientVars, msgVars, lockVars, handlerVars>>

NextQos ==
    \/ \E qos \in QoSValues : QosSubscribe(qos)
    \/ \E qos \in QoSValues : QosPublish(qos)

SpecQos == Init /\ [][NextQos]_allVars

\* ------------------------------------------- the session manager by itself
\* MqttClient as any caller may use it: connect and subscribe called in any
\* order and number, the transport completing each request it was handed.
MaxCalls == 3   \* completion-closure pairs created in one run

\* How the setup part of Inner::connect / Inner::subscribe goes: the options
\* object is built and both handlers are attached, the options object cannot
\* be built (from_serde), or a handler cannot be attached (Reflect::set).
Setups == {"ok", "options_err", "attach_err"}

\* Inner::connect: from_serde(..).unwrap() panics, Reflect::set(..)? returns Err.
connect_result(setup) ==
    IF setup = "ok" THEN "Ok" ELSE IF setup = "options_err" THEN "panic" ELSE "Err"

\* Inner::subscribe: from_serde(..).context(..)? and Reflect::set(..)? return Err.
subscribe_result(setup) ==
    IF setup = "ok" THEN "Ok" ELSE "Err"

\* "keep reference": the new pair overwrites the Option fields of its kind,
\* which drops the pair they held.
keep_reference(kind, id) == [held EXCEPT ![kind] = id]

\* The requests outstanding with the transport.
Requests == { r \in issued : r.id \notin done }

\* Inner::connect (kind = "connect") or Inner::subscribe (kind = "subscribe").
\* The closures are wrapped once the options object exists; they are kept
\* and the transport is called only when both could be attached.
ClientCall(kind, setup) ==
    /\ ret.result # "panic"
    /\ made < MaxCalls
    /\ LET id == IF setup = "options_err" THEN 0 ELSE made + 1
           result == IF kind = "connect" THEN connect_result(setup)
                     ELSE subscribe_result(setup)
       IN /\ made' = IF id = 0 THEN made ELSE id
          /\ held' = IF setup = "ok" THEN keep_reference(kind, id) ELSE held
          /\ issued' = IF setup = "ok" THEN issued \cup {[kind |-> kind, id |-> id]}
                       ELSE issued
          /\ failedIds' = IF setup = "attach_err" THEN failedIds \cup {id} ELSE failedIds
          /\ ret' = [call |-> kind, setup |-> setup, result |-> result, id |-> id,
                     heldBefore |-> held, issuedBefore |-> issued]
    /\ UNCHANGED <<done, fired>>
    /\ UNCHANGED <<vars, msgVars, qosVars, handlerVars, lockVars>>

ClientConnect(setup) == ClientCall("connect", setup)

ClientSubscribe(setup) == ClientCall("subscribe", setup)

\* The transport completes request r and calls the handler (which = "success"
\* or "failure") it found in the options; the closure runs if Inner still
\* holds it. Nothing is released by the call.
Complete(r, which) ==
    /\ r \in Requests
    /\ done' = done \cup {r.id}
    /\ fired' = IF held[r.kind] = r.id
                THEN fired \cup {[id |-> r.id, handler |-> which]}
                ELSE fired
    /\ UNCHANGED <<made, held, issued, failedIds, ret>>
    /\ UNCHANGED <<vars, msgVars, qosVars, handlerVars, lockVars>>

NextClient ==
    \/ \E setup \in Setups : ClientConnect(setup)
    \/ \E setup \in Setups : ClientSubscribe(setup)
    \/ \E r \in issued : \E which \in {"success", "failure"} : Complete(r, which)

SpecClient == Init /\ [][NextClient]_allVars

\* ------------------------------------------------------------------ claims
After(i) == { j \in DOMAIN log : j > i }

FailureEvents ==
    Positions("event", "connect_err") \cup Positions("event", "subscribe_err")
    \cup Positions("event", "connection_lost")

\* C1: when the transport has completed connect with success and then
\* subscribe with success, no connection_lost has occurred and the publisher
\* has not been torn down, the observer has seen exactly Connecting,
\* Subscribing, Running.
C1_HappyPathSequence ==
    (pc = "alive" /\ connReq = "ok" /\ subReq = "ok"
        /\ Count("event", "connection_lost") = 0)
    => Notes = <<"Connecting", "Subscribing", "Running">>

C1_Witness ==
    /\ pc = "alive"
    /\ Count("event", "connect_ok") = 1
    /\ Count("event", "subscribe_ok") = 1
    /\ Count("event", "connection_lost") = 0

\* C2: when the transport has completed connect with failure and reason r
\* (and the publisher has not been torn down), the observer has seen exactly
\* Connecting, then "Failed to connect: r", and no Subscribing.
C2_ConnectFailureSequence ==
    \A i \in Positions("event", "connect_err") :
        pc = "alive" =>
            Notes = <<"Connecting", "Failed to connect: " \o convert_error(log[i].e)>>

\* C3: every subscribe call on the transport is the direct response to a
\* connect-success event, and while the connect request has not succeeded
\* (not issued, outstanding or failed) subscribe has never been called.
C3_SubscribeOnlyOnConnectSuccess ==
    /\ \A i \in Positions("call", "subscribe") :
           i > 1 /\ log[i - 1] = Event("connect_ok", NoErr)
    /\ connReq # "ok" => Count("call", "subscribe") = 0

C3_Witness ==
    /\ Count("call", "subscribe") = 1
    /\ Count("event", "connect_ok") = 1

\* C4: every Subscribing notification comes after a connect-success event,
\* never while the connect request is outstanding or not yet issued.
C4_SubscribingAfterConnectSuccess ==
    \A i \in Positions("note", "Subscribing") :
        \E j \in Positions("event", "connect_ok") : j < i

\* C5: every Running notification is the direct response to a
\* subscribe-success event, every subscribe-success event follows a
\* connect-success event, and once connect has failed Running is never
\* notified.
C5_RunningOnlyOnSubscribeSuccess ==
    /\ \A i \in Positions("note", "Running") :
           i > 1 /\ log[i - 1] = Event("subscribe_ok", NoErr)
    /\ \A i \in Positions("event", "subscribe_ok") :
           \E j \in Positions("event", "connect_ok") : j < i
    /\ Count("event", "connect_err") > 0 => Count("note", "Running") = 0

C5_Witness ==
    \E i \in Positions("note", "Running") :
        i > 1 /\ log[i - 1] = Event("subscribe_ok", NoErr)

\* C6: a subscribe-failure event with reason r is followed at once by the
\* notification "Failed to subscribe: r", and no Running is notified after it.
C6_SubscribeFailureNotified ==
    \A i \in Positions("event", "subscribe_err") :
        /\ i < Len(log)
        /\ log[i + 1] = Note("Failed to subscribe: " \o convert_error(log[i].e))
        /\ \A j \in After(i) : log[j] # Note("Running")

C6_Witness ==
    \E i \in Positions("event", "subscribe_err") :
        log[i].e.kind = "opaque" /\ Len(log) > i + 1

\* C7: every connection_lost(reason) event, in whatever state it arrives, is
\* followed at once by the notification "Disconnected: reason".
C7_ConnectionLostNotified ==
    \A i \in Positions("event", "connection_lost") :
        /\ i < Len(log)
        /\ log[i + 1] = Note("Disconnected: " \o convert_error(log[i].e))

C7_Witness ==
    /\ \E i \in Positions("event", "connection_lost") :
           \E j \in Positions("note", "Running") : j < i
    /\ \E i \in Positions("event", "connection_lost") :
           \E j \in Positions("note", "Stopped") : j < i

\* C8: connect is called on the transport at most once, Connecting is
\* notified at most once, and after a connect-failure, subscribe-failure or
\* connection_lost event there is no further connect call and no further
\* Connecting notification.
C8_NoRetry ==
    /\ Count("call", "connect") <= 1
    /\ Count("note", "Connecting") <= 1
    /\ \A i \in FailureEvents :
           \A j \in After(i) : log[j] # Call("connect") /\ log[j] # Note("Connecting")

C8_Witness ==
    /\ Count("call", "connect") = 1
    /\ Count("event", "connect_err") = 1
    /\ pc = "dropped"

\* C9: at teardown, disconnect is called on the transport exactly once if the
\* transport reports connected, and not at all if it does not.
C9_TeardownDisconnect ==
    \A i \in DOMAIN log :
        log[i].t = "teardown" =>
            Count("call", "disconnect") = (IF log[i].v = "connected" THEN 1 ELSE 0)

\* C10: Stopped is notified at most once, right after the teardown
\* disconnect, and nothing reaches the observers after it.
C10_StoppedIsTerminal ==
    /\ Count("note", "Stopped") <= 1
    /\ \A i \in Positions("note", "Stopped") :
           /\ i > 1 /\ log[i - 1] = Call("disconnect")
           /\ \A j \in After(i) : log[j].t \notin {"note", "command"}

\* C11: no completion handler is dropped while its request is outstanding:
\* every request outstanding with the transport has its handler pair
\* retained by the session manager.
C11_OutstandingHandlersRetained ==
    \A r \in Requests : held[r.kind] = r.id

\* C12: once a handler of a request has been invoked, the session manager no
\* longer retains the handler pair of that request.
C12_ReleasedOnFiring ==
    \A f \in fired : held.connect # f.id /\ held.subscribe # f.id

\* The events that end the wait for a request of the given kind.
Releases(kind) ==
    IF kind = "connect" THEN {"connect_ok", "connect_err", "connection_lost"}
    ELSE {"subscribe_ok", "subscribe_err", "connection_lost"}

C15_SetupErrorIsClean ==
    /\ ret.setup \in {"options_err", "attach_err"} =>
           /\ ret.result = "Err"
           /\ held = ret.heldBefore
           /\ issued = ret.issuedBefore
    /\ \A id \in failedIds :
           /\ \A f \in fired : f.id # id
           /\ \A r \in issued : r.id # id

\* The three tiers in the words of the contract: the string itself, the
\* structured data rendered as text, or the literal <unknown>.
ThreeTier(err) ==
    IF err.kind = "string" THEN err.text
    ELSE IF err.kind = "json" THEN err.text
    ELSE "<unknown>"

FailurePrefix(v) ==
    IF v = "connect_err" THEN "Failed to connect: "
    ELSE IF v = "subscribe_err" THEN "Failed to subscribe: "
    ELSE "Disconnected: "

\* C14: every failure path reports the native error through the same
\* three-tier conversion: the note that follows a connect failure, a
\* subscribe failure or a connection loss carries it, and so does the error
\* that send returns when publish fails.
C14_UniformErrorConversion ==
    /\ \A i \in FailureEvents :
           \A j \in After(i) : IsNote(log[j]) /\ j = i + 1 =>
               log[j].v = FailurePrefix(log[i].v) \o ThreeTier(log[i].e)
    /\ \A i \in DOMAIN returned :
           returned[i].e # NoErr => returned[i].v = ThreeTier(returned[i].e)

\* C19: every send makes exactly one publish call, with topic "sensor",
\* QoS level 1 and retained = false, while the worker holds the lock; when
\* send has returned, with Ok or with publish's failure as its result, the
\* worker no longer holds the lock, and with nobody inside a locked statement
\* the lock is free.
C19_SendPublishesOnceUnderLock ==
    /\ \A i \in DOMAIN published :
           published[i] = [topic |-> "sensor", qos |-> 1, retained |-> FALSE]
    /\ \A o \in ops : o.op = "publish" => o.locked /\ o.ctx = "worker"
    /\ Len(published) =
           Len(returned) + (IF wpc.at = "send_called" THEN 1 ELSE 0)
    /\ \A i \in DOMAIN returned :
           returned[i].v = "Ok" <=> returned[i].e = NoErr
    /\ wpc.at = "idle" => "worker" \notin holders
    /\ (wpc.at = "idle" /\ lpc = "idle") => can_lock(holders)

\* A send has returned the failure of publish and the lock is free again.
C19_Witness ==
    /\ Len(returned) >= 1
    /\ returned[Len(returned)].e # NoErr
    /\ wpc.at = "idle"
    /\ holders = {}

\* C20: every operation on the shared client (connect, subscribe, publish,
\* disconnect) is made by a context that holds the lock, at most one context
\* holds it, and the event-loop context does not hold it when it is back in
\* the event loop, in particular while a connect or subscribe is pending.
C20_OperationsUnderExclusiveLock ==
    /\ \A o \in ops : o.locked
    /\ Cardinality(holders) <= 1
    /\ lpc = "idle" => "loop" \notin holders
    /\ (lpc = "idle" /\ (connReq = "pending" \/ subReq = "pending")) =>
           "loop" \notin holders

\* All four operations have been made, the last while a subscribe was pending.
C20_Witness ==
    /\ { o.op : o \in ops } = {"connect", "subscribe", "publish", "disconnect"}
    /\ subReq = "pending"
    /\ lpc = "idle"

\* The topic begins with "command/inbox//": segments "command", "inbox", an
\* empty one, and more after it.
HasExactPrefix(topic) ==
    Len(topic) >= 4 /\ SubSeq(topic, 1, 3) = <<"command", "inbox", "">>

OnMatchingTopic(d) == d.msg.isMessage /\ HasExactPrefix(d.msg.topic)

Range(seq) == { seq[i] : i \in DOMAIN seq }

\* C16: a delivered message whose topic does not begin with
\* "command/inbox//" ("telemetry/data", or "command/inbox/abc" with a single
\* separator) causes no decode attempt and no notification of either observer.
C16_OtherTopicsIgnored ==
    \A i \in DOMAIN delivered :
        (delivered[i].msg.isMessage /\ ~HasExactPrefix(delivered[i].msg.topic)) =>
            /\ delivered[i].attempts = <<>>
            /\ delivered[i].emitted = <<>>

\* A decodable payload has been delivered on each of the two other topics.
C16_Witness ==
    /\ \E i \in DOMAIN delivered :
           /\ delivered[i].msg.topic = <<"command", "inbox", "abc">>
           /\ delivered[i].msg.payload.strict
    /\ \E i \in DOMAIN delivered :
           /\ delivered[i].msg.topic = <<"telemetry", "data">>
           /\ delivered[i].msg.payload.loose

\* C17: on a matching topic the decoders are tried in the order strict,
\* generic parse, loose mapping, stopping at the first success: a payload of
\* the canonical schema forwards the strict result and never reaches the loose
\* mapping; a payload that is only valid generic data forwards a command iff
\* the loose mapping yields one, and then its Command, not its metadata; no
\* delivery forwards more than one Command.
C17_DecodeOrder ==
    \A i \in DOMAIN delivered :
        /\ Len(delivered[i].emitted) <= 1
        /\ OnMatchingTopic(delivered[i]) =>
            /\ \E n \in 1..3 :
                   delivered[i].attempts = SubSeq(<<"strict", "generic", "loose">>, 1, n)
            /\ delivered[i].msg.payload.strict =>
                   /\ delivered[i].attempts = <<"strict">>
                   /\ delivered[i].emitted = <<Command(delivered[i].msg.payload.cmd)>>
            /\ (~delivered[i].msg.payload.strict /\ delivered[i].msg.payload.json) =>
                   /\ "loose" \in Range(delivered[i].attempts)
                   /\ delivered[i].emitted # <<>> <=> delivered[i].msg.payload.loose
                   /\ delivered[i].msg.payload.loose =>
                          delivered[i].emitted = <<Command(delivered[i].msg.payload.lcmd)>>
            /\ (~delivered[i].msg.payload.strict /\ ~delivered[i].msg.payload.json) =>
                   "loose" \notin Range(delivered[i].attempts)

\* A canonical payload and a loose-only payload have both been delivered on a
\* matching topic.
C17_Witness ==
    /\ \E i \in DOMAIN delivered :
           OnMatchingTopic(delivered[i]) /\ delivered[i].msg.payload.strict
    /\ \E i \in DOMAIN delivered :
           /\ OnMatchingTopic(delivered[i])
           /\ ~delivered[i].msg.payload.strict
           /\ delivered[i].msg.payload.loose

Undecodable(d) ==
    OnMatchingTopic(d) /\ ~d.msg.payload.strict /\ ~d.msg.payload.loose

\* C18: a message on a matching topic that satisfies neither the strict nor
\* the loose schema is dropped: nothing is forwarded or notified, no transport
\* call is made, the session is as it was, and a later decodable message is
\* forwarded as usual.
C18_DecodeErrorAbsorbed ==
    \A i \in DOMAIN delivered :
        Undecodable(delivered[i]) =>
            /\ delivered[i].emitted = <<>>
            /\ delivered[i].after = delivered[i].before
            /\ \A j \in DOMAIN delivered :
                   (j > i /\ OnMatchingTopic(delivered[j])
                          /\ delivered[j].msg.payload.strict) =>
                       delivered[j].emitted = <<Command(delivered[j].msg.payload.cmd)>>

\* An undecodable message has been followed by a decodable one.
C18_Witness ==
    \E i \in DOMAIN delivered : \E j \in DOMAIN delivered :
        /\ i < j
        /\ Undecodable(delivered[i])
        /\ ~delivered[i].msg.payload.json
        /\ OnMatchingTopic(delivered[j])
        /\ delivered[j].msg.payload.strict

\* C21: replacing a long-lived handler is clean: once the setter has returned
\* the transport references the closure that is retained, which is newer than
\* every dropped closure of its kind, and every closure ever created is
\* either retained or dropped; the transport at no moment references a
\* dropped closure; and every event invokes the closure retained at that
\* time, never a dropped one.
C21_HandlerReplacementClean ==
    /\ spc.kind = "none" =>
           /\ \A k \in HandlerKinds : tref[k] = kept[k]
           /\ \A r \in released : r.id < tref[r.kind]
           /\ Cardinality(released)
                  + Cardinality({ k \in HandlerKinds : kept[k] # 0 }) = spc.created
    /\ \A k \in HandlerKinds : [kind |-> k, id |-> tref[k]] \notin released
    /\ \A v \in invoked : v.id = v.kept /\ ~v.dropped

\* A handler has been replaced, and an event has arrived before and after.
C21_Witness ==
    \E r \in released :
        /\ \E v \in invoked : v.kind = r.kind /\ v.id = r.id
        /\ \E v \in invoked : v.kind = r.kind /\ v.id > r.id

\* C22: QoS0, QoS1 and QoS2 are handed to the transport as 0, 1 and 2: the
\* mapping is defined on all three, distinct levels come from distinct QoS
\* values, all of 0, 1, 2 are produced, and no subscribe or publish call
\* hands over anything outside {0, 1, 2}.
C22_QosBijection ==
    /\ \A i \in DOMAIN passed :
           /\ passed[i].level \in {0, 1, 2}
           /\ passed[i].qos = "QoS0" => passed[i].level = 0
           /\ passed[i].qos = "QoS1" => passed[i].level = 1
           /\ passed[i].qos = "QoS2" => passed[i].level = 2
    /\ \A i \in DOMAIN passed : \A j \in DOMAIN passed :
           passed[i].level = passed[j].level => passed[i].qos = passed[j].qos
    /\ { passed[i].qos : i \in DOMAIN passed } = QoSValues =>
           { passed[i].level : i \in DOMAIN passed } = {0, 1, 2}

\* All three QoS values have been used, by subscribe and by publish.
C22_Witness ==
    /\ { passed[i].qos : i \in DOMAIN passed } = QoSValues
    /\ { passed[i].op : i \in DOMAIN passed } = {"subscribe", "publish"}

\* The notifications that report a failure.
FailureNotes ==
    { FailurePrefix(v) \o convert_error(e) :
          v \in {"connect_err", "subscribe_err", "connection_lost"}, e \in NativeErrors }

\* The observer has been told Running or a failure.
Outcome ==
    \E i \in DOMAIN log :
        IsNote(log[i]) /\ (log[i].v = "Running" \/ log[i].v \in FailureNotes)

\* C23: with a transport that completes every request it accepts, once the
\* publisher is constructed the observer is eventually told Running or a
\* failure, also when connect in the constructor or subscribe in the
\* connect-success handler ended in a setup error. A publisher that its owner
\* drops first is left out: nothing is asked of it.
C23_DefiniteOutcome == (pc = "alive") ~> (Outcome \/ pc = "dropped")

\* C24: no context asks for the session lock while it holds the lock itself:
\* not the event-loop context entering new, the connect-success handler or
\* drop, and not the context calling send; and whoever holds the lock is
\* inside a locked statement that ends by itself, not waiting for the lock.
C24_NoSelfDeadlock ==
    /\ lpc \in {"new_wait", "cs_wait", "drop_wait"} => "loop" \notin holders
    /\ wpc.at = "send_wait" => "worker" \notin holders
    /\ "loop" \in holders =>
           lpc \in {"new_locked", "new_called", "cs_locked", "cs_called",
                    "drop_locked", "drop_called"}
    /\ "worker" \in holders => wpc.at \in {"send_locked", "send_called"}

\* The connect-success handler waits for the lock while send holds it, after
\* the constructor's connect call has returned.
C24_Witness ==
    /\ lpc = "cs_wait"
    /\ holders = {"worker"}
    /\ \E o \in ops : o.op = "connect"

Before(i) == { j \in DOMAIN log : j < i }

\* C25: when the transport's connect is called, Connecting has been emitted
\* and both long-lived handlers have been installed; from then until the
\* publisher is torn down both handlers are retained, and every
\* connection_lost that the transport reports in that time reaches the
\* observer.
C25_HandlersBeforeConnect ==
    /\ \A i \in Positions("call", "connect") :
           /\ \E j \in Before(i) : log[j] = Note("Connecting")
           /\ \E j \in Before(i) : log[j] = Call("set_on_connection_lost")
           /\ \E j \in Before(i) : log[j] = Call("set_on_message_arrived")
    /\ (connReq # "none" /\ pc = "alive") =>
           inner.exists /\ inner.on_connection_lost /\ inner.on_message_arrived
    /\ \A i \in Positions("event", "connection_lost") :
           (\A j \in Before(i) : log[j].t # "teardown") =>
               /\ i < Len(log)
               /\ log[i + 1] = Note("Disconnected: " \o ThreeTier(log[i].e))

\* After the connect call a message has been delivered and the connection
\* has been lost, with the publisher still in use.
C25_Witness ==
    /\ pc = "alive"
    /\ \E i \in Positions("call", "connect") :
           /\ \E j \in After(i) : log[j].t = "event" /\ log[j].v = "message"
           /\ \E j \in After(i) : log[j].t = "event" /\ log[j].v = "connection_lost"

====
